---- MODULE Spec2Model ----
(***************************************************************************)
(* A model of the geometric kernel of pbr: axis-aligned bounding boxes      *)
(* (bounding_box.rs), rays (ray.rs), surface interactions (interaction.rs), *)
(* face_forward (vector.rs), handedness (transform.rs) and the shapes       *)
(* (shape/sphere.rs, shape/triangle.rs).                                    *)
(*                                                                         *)
(* Scalars are exact numbers: a coordinate is an integer, a parametric      *)
(* value t is a fraction <<n, d>> with d >= 0 (d = 0 is an infinity).       *)
(* The one f32 value that is not a number, NaN, is kept as a distinguished  *)
(* scalar that every comparison answers FALSE for.                          *)
(***************************************************************************)
EXTENDS Integers, Sequences, FiniteSets, TLC

VARIABLES
    a,          \* bounding box: the receiver (self) of the box operations
    b,          \* bounding box: the argument (other) of the box operations
    isect,      \* result of the last a.intersection(b), while a and b stand
    ovl,        \* result of the last a.overlaps(b), while a and b stand
    last,       \* the last box operation and the corner points it was given
    panicked,   \* TRUE once a panic!() has unwound the caller
    rbox,       \* the box a ray is tested against
    ray,        \* the ray: origin, direction, t_max
    hit,        \* result of rbox.ray_intersection(ray), once it has run
    si,         \* the SurfaceInteraction a caller holds
    prev,       \* si.normal as it was before the last operation on si
    siLast,     \* the last operation on si and its orientation_is_authoritative
    siOps,      \* operations applied to si since SurfaceInteraction::new
    theShape,   \* the Sphere or Triangle a caller holds
    wray,       \* the world-space ray last passed to the shape
    outcome,    \* how the last call on the shape ended, and what it computed
    given,      \* the arguments Sphere::new was last called with
    answer,     \* the bool or the box the last call on the shape returned
    call        \* one call of a box function: its arguments and what it returned

boxVars == <<a, b, isect, ovl, last, panicked>>
rayVars == <<rbox, ray, hit>>
siVars == <<si, prev, siLast, siOps>>
shapeVars == <<theShape, wray, outcome, given, answer>>
callVars == <<call>>
vars == <<boxVars, rayVars, siVars, shapeVars, callVars>>
exceptBox == <<rayVars, siVars, shapeVars, callVars>>
exceptRay == <<boxVars, siVars, shapeVars, callVars>>
exceptSi == <<boxVars, rayVars, shapeVars, callVars>>
exceptShape == <<boxVars, rayVars, siVars, callVars>>
exceptCall == <<boxVars, rayVars, siVars, shapeVars>>

(***************************************************************************)
(* Bounds of the model.                                                     *)
(***************************************************************************)
MaxCoord == 1       \* box input coordinates range over 0..MaxCoord
MaxExpand == 1      \* expand is followed while the box stays within
                    \* -MaxExpand .. MaxCoord + MaxExpand
MaxT == 2           \* a finite ray.t_max is one of 0..MaxT
MaxDir == 2         \* a ray direction component is one of -MaxDir..MaxDir
MaxSiOps == 3       \* operations followed on one SurfaceInteraction after new
MaxSide == 2        \* corners of the boxes one function is called on: 0..MaxSide

Coord == 0..MaxCoord
Axes == 1..3

(***************************************************************************)
(* f32 scalars.  NaN is unordered: le, lt, ge, gt are all false on it.      *)
(***************************************************************************)
NaN == -99
CoordNaN == {0, NaN}

Le(x, y) == x # NaN /\ y # NaN /\ x <= y
Lt(x, y) == x # NaN /\ y # NaN /\ x < y
Ge(x, y) == x # NaN /\ y # NaN /\ x >= y
Gt(x, y) == x # NaN /\ y # NaN /\ x > y
Add(x, y) == IF x = NaN \/ y = NaN THEN NaN ELSE x + y
Sub(x, y) == IF x = NaN \/ y = NaN THEN NaN ELSE x - y

Points(S) == {<<x, y, z>> : x \in S, y \in S, z \in S}

(***************************************************************************)
(* min_partial_ord / max_partial_ord: a value, or a panic.                  *)
(***************************************************************************)
Val(v) == [ok |-> TRUE, v |-> v]
Panic == [ok |-> FALSE, v |-> 0]

min_partial_ord(x, y) ==
    IF Le(x, y) THEN Val(x)
    ELSE IF Lt(y, x) THEN Val(y)
    ELSE Panic

max_partial_ord(x, y) ==
    IF Ge(x, y) THEN Val(x)
    ELSE IF Gt(y, x) THEN Val(y)
    ELSE Panic

leq_3d(p1, p2) == Le(p1[1], p2[1]) /\ Le(p1[2], p2[2]) /\ Le(p1[3], p2[3])

(***************************************************************************)
(* Bounds3<S>.  A box operation returns [ok, some, box]: ok = FALSE is a    *)
(* panic, some = FALSE is Option::None.                                     *)
(***************************************************************************)
Box(mn, mx) == [min |-> mn, max |-> mx]
NoBox == Box(<<0, 0, 0>>, <<0, 0, 0>>)
Some(bx) == [ok |-> TRUE, some |-> TRUE, box |-> bx]
None == [ok |-> TRUE, some |-> FALSE, box |-> NoBox]
Abort == [ok |-> FALSE, some |-> FALSE, box |-> NoBox]

\* Point3::new over three min/max results: the first panic unwinds.
MkPoint(cx, cy, cz) == <<cx.v, cy.v, cz.v>>
AllOk(mn, mx) == \A i \in Axes : mn[i].ok /\ mx[i].ok

from_point(p) == Box(p, p)

\* from_corners without the per-axis sort: the corners are stored as given.
from_corners_unsorted(p1, p2) == Some(Box(p1, p2))

from_corners(p1, p2) ==
    LET mn == [i \in Axes |-> min_partial_ord(p1[i], p2[i])]
        mx == [i \in Axes |-> max_partial_ord(p1[i], p2[i])]
    IN  IF AllOk(mn, mx)
        THEN Some(Box(MkPoint(mn[1], mn[2], mn[3]), MkPoint(mx[1], mx[2], mx[3])))
        ELSE Abort

\* union that keeps the receiver's min corner.
union_min_of_self(self, other) ==
    LET mx == [i \in Axes |-> max_partial_ord(self.max[i], other.max[i])]
    IN  IF \A i \in Axes : mx[i].ok
        THEN Some(Box(self.min, MkPoint(mx[1], mx[2], mx[3])))
        ELSE Abort

union(self, other) ==
    LET mn == [i \in Axes |-> min_partial_ord(self.min[i], other.min[i])]
        mx == [i \in Axes |-> max_partial_ord(self.max[i], other.max[i])]
    IN  IF AllOk(mn, mx)
        THEN Some(Box(MkPoint(mn[1], mn[2], mn[3]), MkPoint(mx[1], mx[2], mx[3])))
        ELSE Abort

union_with_point(self, p) == union(self, from_point(p))

\* intersection that takes a box of no extent on some axis for no box.
intersection_strict(self, other) ==
    LET mn == [i \in Axes |-> max_partial_ord(self.min[i], other.min[i])]
        mx == [i \in Axes |-> min_partial_ord(self.max[i], other.max[i])]
        lo == MkPoint(mn[1], mn[2], mn[3])
        hi == MkPoint(mx[1], mx[2], mx[3])
    IN  IF ~AllOk(mn, mx) THEN Abort
        ELSE IF \A i \in Axes : Lt(lo[i], hi[i]) THEN Some(Box(lo, hi))
        ELSE None

intersection(self, other) ==
    LET mn == [i \in Axes |-> max_partial_ord(self.min[i], other.min[i])]
        mx == [i \in Axes |-> min_partial_ord(self.max[i], other.max[i])]
        lo == MkPoint(mn[1], mn[2], mn[3])
        hi == MkPoint(mx[1], mx[2], mx[3])
    IN  IF ~AllOk(mn, mx) THEN Abort
        ELSE IF leq_3d(lo, hi) THEN Some(Box(lo, hi))
        ELSE None

\* overlaps with exclusive comparisons: boxes that only touch do not overlap.
overlaps_exclusive(self, other) ==
    \A i \in Axes : Lt(self.min[i], other.max[i]) /\ Gt(self.max[i], other.min[i])

overlaps(self, other) ==
    LET x_overlaps == Le(self.min[1], other.max[1]) /\ Ge(self.max[1], other.min[1])
        y_overlaps == Le(self.min[2], other.max[2]) /\ Ge(self.max[2], other.min[2])
        z_overlaps == Le(self.min[3], other.max[3]) /\ Ge(self.max[3], other.min[3])
    IN  x_overlaps /\ y_overlaps /\ z_overlaps

inside(self, p) ==
    /\ Ge(p[1], self.min[1]) /\ Le(p[1], self.max[1])
    /\ Ge(p[2], self.min[2]) /\ Le(p[2], self.max[2])
    /\ Ge(p[3], self.min[3]) /\ Le(p[3], self.max[3])

inside_exclusive(self, p) ==
    /\ Ge(p[1], self.min[1]) /\ Lt(p[1], self.max[1])
    /\ Gt(p[2], self.min[2]) /\ Lt(p[2], self.max[2])
    /\ Gt(p[3], self.min[3]) /\ Lt(p[3], self.max[3])

\* expand that moves the max corner only.
expand_max_only(self, delta) ==
    IF Gt(delta, 0)
    THEN Box(self.min, [i \in Axes |-> Add(self.max[i], delta)])
    ELSE self

expand(self, delta) ==
    IF Gt(delta, 0)
    THEN Box([i \in Axes |-> Sub(self.min[i], delta)],
             [i \in Axes |-> Add(self.max[i], delta)])
    ELSE self

diagonal(self) == [i \in Axes |-> Sub(self.max[i], self.min[i])]

\* maximum_extend with >= for >: on a tie the earlier axis wins.
maximum_extend_first(self) ==
    LET d == diagonal(self)
    IN  IF d[1] >= d[2] /\ d[1] >= d[3] THEN "X"
        ELSE IF d[2] >= d[3] THEN "Y"
        ELSE "Z"

maximum_extend(self) ==
    LET d == diagonal(self)
    IN  IF Gt(d[1], d[2]) /\ Gt(d[1], d[3]) THEN "X"
        ELSE IF Gt(d[2], d[3]) THEN "Y"
        ELSE "Z"

(***************************************************************************)
(* The box operations as steps of a caller that holds two boxes.  S is the  *)
(* set of scalars the caller's points are drawn from.                       *)
(***************************************************************************)
NoPt == <<0, 0, 0>>
Unset == [set |-> FALSE, some |-> FALSE, box |-> NoBox, flag |-> FALSE]
Op(name, p1, p2) == [op |-> name, p1 |-> p1, p2 |-> p2]

InWindow(bx) ==
    \A i \in Axes : /\ bx.min[i] \in (0 - MaxExpand)..(MaxCoord + MaxExpand) \cup {NaN}
                    /\ bx.max[i] \in (0 - MaxExpand)..(MaxCoord + MaxExpand) \cup {NaN}

\* self (or other) is replaced by the outcome r of a constructor or an
\* operation; a panic unwinds and nothing more runs.
Assign(toSelf, r, name, p1, p2) ==
    /\ UNCHANGED exceptBox
    /\ IF r.ok
       THEN /\ a' = IF toSelf THEN r.box ELSE a
            /\ b' = IF toSelf THEN b ELSE r.box
            /\ panicked' = FALSE
       ELSE /\ UNCHANGED <<a, b>>
            /\ panicked' = TRUE
    /\ isect' = Unset
    /\ ovl' = Unset
    /\ last' = Op(name, p1, p2)

FromPoint(S) ==
    /\ ~panicked
    /\ \E p \in Points(S), toSelf \in BOOLEAN :
          Assign(toSelf, Some(from_point(p)), "from_point", NoPt, NoPt)

FromCorners(S) ==
    /\ ~panicked
    /\ \E p1 \in Points(S), p2 \in Points(S), toSelf \in BOOLEAN :
          Assign(toSelf, from_corners(p1, p2),
                 IF toSelf THEN "from_corners" ELSE "from_corners_other", p1, p2)

Union ==
    /\ ~panicked
    /\ Assign(TRUE, union(a, b), "union", NoPt, NoPt)

UnionWithPoint(S) ==
    /\ ~panicked
    /\ \E p \in Points(S) :
          Assign(TRUE, union_with_point(a, p), "union_with_point", NoPt, NoPt)

Intersection ==
    /\ UNCHANGED exceptBox
    /\ ~panicked
    /\ LET r == intersection(a, b)
       IN  /\ isect' = [set |-> r.ok, some |-> r.some, box |-> r.box, flag |-> FALSE]
           /\ panicked' = ~r.ok
    /\ last' = Op("intersection", NoPt, NoPt)
    /\ UNCHANGED <<a, b, ovl>>

\* The caller goes on with the box a Some result of intersection holds.
KeepIntersection ==
    /\ ~panicked
    /\ isect.set /\ isect.some
    /\ Assign(TRUE, Some(isect.box), "keep_intersection", NoPt, NoPt)

Overlaps ==
    /\ UNCHANGED exceptBox
    /\ ~panicked
    /\ ovl' = [set |-> TRUE, some |-> FALSE, box |-> NoBox, flag |-> overlaps(a, b)]
    /\ last' = Op("overlaps", NoPt, NoPt)
    /\ UNCHANGED <<a, b, isect, panicked>>

Expand ==
    /\ ~panicked
    /\ \E delta \in {-1, 0, 1} :
          /\ InWindow(expand(a, delta))
          /\ Assign(TRUE, Some(expand(a, delta)), "expand", NoPt, NoPt)

(***************************************************************************)
(* Parametric values.  t is the fraction <<n, d>>, d >= 0; <<1, 0>> is      *)
(* +infinity.  Comparison is by cross multiplication.                       *)
(***************************************************************************)
Frac(n, d) == IF d < 0 THEN <<0 - n, 0 - d>> ELSE <<n, d>>
Inf == <<1, 0>>
Zero == <<0, 1>>
FLt(x, y) == x[1] * y[2] < y[1] * x[2]
FGt(x, y) == FLt(y, x)
FLe(x, y) == x[1] * y[2] <= y[1] * x[2]
FEq(x, y) == x[1] * y[2] = y[1] * x[2]

(***************************************************************************)
(* cgmath vectors and matrices.  A Matrix4 is its linear 3x3 block (rows)   *)
(* and its translation.  normalize keeps the direction of a vector: the     *)
(* model holds a normalized vector as the shortest integer vector of that   *)
(* direction (the vector over the gcd of its components), so that the sign  *)
(* of every dot product is the sign the unit vectors give.  It is applied   *)
(* to non-zero vectors only.                                                *)
(***************************************************************************)
Abs(x) == IF x < 0 THEN 0 - x ELSE x

RECURSIVE Gcd(_, _)
Gcd(x, y) == IF y = 0 THEN x ELSE Gcd(y, x % y)

Dot(v, w) == v[1] * w[1] + v[2] * w[2] + v[3] * w[3]
Cross(v, w) ==
    <<v[2] * w[3] - v[3] * w[2], v[3] * w[1] - v[1] * w[3], v[1] * w[2] - v[2] * w[1]>>
Neg(v) == <<0 - v[1], 0 - v[2], 0 - v[3]>>
Normalize(v) ==
    LET g == Gcd(Gcd(Abs(v[1]), Abs(v[2])), Abs(v[3]))
    IN  <<v[1] \div g, v[2] \div g, v[3] \div g>>

Matrix(r1, r2, r3, t) == [lin |-> <<r1, r2, r3>>, tr |-> t]
transform_vector(m, v) == <<Dot(m.lin[1], v), Dot(m.lin[2], v), Dot(m.lin[3], v)>>
transform_point(m, q) ==
    <<Dot(m.lin[1], q) + m.tr[1], Dot(m.lin[2], q) + m.tr[2], Dot(m.lin[3], q) + m.tr[3]>>

Identity == Matrix(<<1, 0, 0>>, <<0, 1, 0>>, <<0, 0, 1>>, <<0, 0, 0>>)
MirrorX == Matrix(<<-1, 0, 0>>, <<0, 1, 0>>, <<0, 0, 1>>, <<0, 0, 0>>)
ShearXY == Matrix(<<1, -2, 0>>, <<0, 1, 0>>, <<0, 0, 1>>, <<1, 0, 0>>)
RotateZ == Matrix(<<0, -1, 0>>, <<1, 0, 0>>, <<0, 0, 1>>, <<0, 0, 0>>)
ScaleMove == Matrix(<<2, 0, 0>>, <<0, 2, 0>>, <<0, 0, 2>>, <<0, 0, 1>>)

(***************************************************************************)
(* vector::face_forward.                                                    *)
(***************************************************************************)
\* face_forward with the test the wrong way round: v1 is flipped when it
\* already is in the hemisphere of v2.
face_forward_inverted(v1, v2) == IF Dot(v1, v2) > 0 THEN Neg(v1) ELSE v1

face_forward(v1, v2) == IF Dot(v1, v2) < 0 THEN Neg(v1) ELSE v1

(***************************************************************************)
(* SurfaceInteraction and ShadingGeometry.                                  *)
(***************************************************************************)
GenericShape(reverse_orientation, transform_swaps_handedness) ==
    [reverse_orientation |-> reverse_orientation,
     transform_swaps_handedness |-> transform_swaps_handedness]

ShadingGeometry(normal, dpdu, dpdv, dndu, dndv) ==
    [normal |-> normal, dpdu |-> dpdu, dpdv |-> dpdv, dndu |-> dndu, dndv |-> dndv]

NoDir == [some |-> FALSE, v |-> <<0, 0, 0>>]
SomeDir(v) == [some |-> TRUE, v |-> v]

new(point, point_error_bound, neg_ray_direction, shape, uv, dpdu, dpdv, dndu, dndv) ==
    LET normal ==
            IF \/ (shape.reverse_orientation /\ ~shape.transform_swaps_handedness)
               \/ (~shape.reverse_orientation /\ shape.transform_swaps_handedness)
            THEN Normalize(Cross(dpdu, dpdv))
            ELSE Normalize(Neg(Cross(dpdu, dpdv)))
    IN  [point |-> point,
         point_error_bound |-> point_error_bound,
         neg_ray_direction |-> neg_ray_direction,
         shape |-> shape,
         normal |-> normal,
         uv |-> uv,
         dpdu |-> dpdu,
         dpdv |-> dpdv,
         dndu |-> dndu,
         dndv |-> dndv,
         shading_geometry |-> ShadingGeometry(normal, dpdu, dpdv, dndu, dndv)]

\* set_shading_geometry with the two branches exchanged: the authoritative
\* side is the one that gets flipped.
set_shading_geometry_swapped(self, dpdu, dpdv, dndu, dndv, orientation_is_authoritative) ==
    LET n == Normalize(Cross(dpdu, dpdv))
    IN  IF orientation_is_authoritative
        THEN [self EXCEPT !.shading_geometry =
                 ShadingGeometry(face_forward(n, self.normal), dpdu, dpdv, dndu, dndv)]
        ELSE [self EXCEPT !.shading_geometry = ShadingGeometry(n, dpdu, dpdv, dndu, dndv),
                          !.normal = face_forward(self.normal, n)]

set_shading_geometry(self, dpdu, dpdv, dndu, dndv, orientation_is_authoritative) ==
    LET n == Normalize(Cross(dpdu, dpdv))
    IN  IF orientation_is_authoritative
        THEN [self EXCEPT !.shading_geometry = ShadingGeometry(n, dpdu, dpdv, dndu, dndv),
                          !.normal = face_forward(self.normal, n)]
        ELSE [self EXCEPT !.shading_geometry =
                 ShadingGeometry(face_forward(n, self.normal), dpdu, dpdv, dndu, dndv)]

\* impl Transform<SurfaceInteraction> for Matrix4<f32>
transform_interaction(m, interaction) ==
    LET normal == Normalize(transform_vector(m, interaction.normal))
        sg == interaction.shading_geometry
        sn == Normalize(transform_vector(m, sg.normal))
    IN  [point |-> interaction.point,
         point_error_bound |-> interaction.point_error_bound,
         neg_ray_direction |->
             IF interaction.neg_ray_direction.some
             THEN SomeDir(Normalize(transform_vector(m, interaction.neg_ray_direction.v)))
             ELSE NoDir,
         shape |-> interaction.shape,
         normal |-> normal,
         uv |-> interaction.uv,
         dpdu |-> transform_vector(m, interaction.dpdu),
         dpdv |-> transform_vector(m, interaction.dpdv),
         dndu |-> transform_vector(m, interaction.dndu),
         dndv |-> transform_vector(m, interaction.dndv),
         shading_geometry |->
             ShadingGeometry(face_forward(sn, normal),
                             transform_vector(m, sg.dpdu),
                             transform_vector(m, sg.dpdv),
                             transform_vector(m, sg.dndu),
                             transform_vector(m, sg.dndv))]

NoSI ==
    new(NoPt, NoPt, NoDir, GenericShape(FALSE, FALSE), <<0, 0>>,
        <<1, 0, 0>>, <<0, 1, 0>>, NoPt, NoPt)

SiOp(name, auth) == [op |-> name, auth |-> auth]

(***************************************************************************)
(* transform.rs, ray.rs and the shapes.                                     *)
(***************************************************************************)
Det3(l) ==
      l[1][1] * (l[2][2] * l[3][3] - l[2][3] * l[3][2])
    - l[1][2] * (l[2][1] * l[3][3] - l[2][3] * l[3][1])
    + l[1][3] * (l[2][1] * l[3][2] - l[2][2] * l[3][1])

swaps_handedness(m) == Det3(m.lin) < 0

Ray(origin, direction, t_max) == [origin |-> origin, direction |-> direction, t_max |-> t_max]

\* impl Transform<Ray> for Matrix4<f32>
transform_ray(m, r) ==
    Ray(transform_point(m, r.origin), transform_vector(m, r.direction), r.t_max)

\* Sphere::new
sphere_new(object_to_world, world_to_object, reverse_orientation, radius, z_min, z_max, phi_max) ==
    [kind |-> "sphere",
     object_to_world |-> object_to_world,
     world_to_object |-> world_to_object,
     object_to_world_swaps_handedness |-> swaps_handedness(object_to_world),
     reverse_orientation |-> reverse_orientation,
     radius |-> radius,
     z_min |-> z_min,
     z_max |-> z_max,
     theta_min |-> 0,
     theta_max |-> 0,
     phi_max |-> 0,
     vertices |-> <<NoPt, NoPt, NoPt>>]

\* TriangleMesh::triangle_at over a mesh of one triangle, with the fields of
\* the mesh it refers to.
triangle_at(object_to_world, world_to_object, reverse_orientation, world_space_vertices) ==
    [kind |-> "triangle",
     object_to_world |-> object_to_world,
     world_to_object |-> world_to_object,
     object_to_world_swaps_handedness |-> FALSE,
     reverse_orientation |-> reverse_orientation,
     radius |-> 0,
     z_min |-> 0,
     z_max |-> 0,
     theta_min |-> 0,
     theta_max |-> 0,
     phi_max |-> 0,
     vertices |-> world_space_vertices]

\* How a call ended: it returned (Some((t, interaction)) or None) or it
\* panicked; with the object-space ray and the quadratic coefficients
\* a, b, c it had computed.
Returned(op, some, t, r, qa, qb, qc) ==
    [op |-> op, status |-> "returned", some |-> some, t |-> t,
     ray |-> r, a |-> qa, b |-> qb, c |-> qc]
Panicked(op, r, qa, qb, qc) ==
    [op |-> op, status |-> "panic", some |-> FALSE, t |-> Zero,
     ray |-> r, a |-> qa, b |-> qb, c |-> qc]
NoRay == Ray(NoPt, NoPt, Zero)
NoCall == Returned("none", FALSE, Zero, NoRay, 0, 0, 0)

\* The arguments of Sphere::new that the claims compare the fields with.
Given(radius, z_min, z_max, phi_max) ==
    [radius |-> radius, z_min |-> z_min, z_max |-> z_max, phi_max |-> phi_max]
NoneGiven == Given(0, 0, 0, 0)

\* What a call that returns a bool or a box gave back.
Answer(flag, bx) == [flag |-> flag, box |-> bx]
NoAnswer == Answer(FALSE, NoBox)

\* Sphere::ray_intersection: the coefficients are formed, then todo!().
sphere_ray_intersection(self, r, test_alpha_texture) ==
    LET tr == transform_ray(self.object_to_world, r)
        qa == Dot(tr.direction, tr.direction)
        qb == 2 * Dot(tr.direction, tr.origin)
        qc == Dot(tr.origin, tr.origin) - self.radius * self.radius
    IN  Panicked("sphere.ray_intersection", tr, qa, qb, qc)

\* Triangle::ray_intersection: the vertices are read, then todo!().
triangle_ray_intersection(self, r, test_alpha_texture) ==
    Panicked("triangle.ray_intersection", r, 0, 0, 0)

\* Sphere::does_ray_intersect: is_some() of ray_intersection's result, which
\* is never reached when ray_intersection panics.
sphere_does_ray_intersect(self, r, test_alpha_texture) ==
    [sphere_ray_intersection(self, r, test_alpha_texture)
        EXCEPT !.op = "sphere.does_ray_intersect"]

\* Triangle::does_ray_intersect
triangle_does_ray_intersect(self, r, test_alpha_texture) ==
    [triangle_ray_intersection(self, r, test_alpha_texture)
        EXCEPT !.op = "triangle.does_ray_intersect"]

\* Sphere::object_to_world_swaps_handedness returns the field set by new.
sphere_object_to_world_swaps_handedness(self) ==
    [status |-> "returned", flag |-> self.object_to_world_swaps_handedness]

\* Triangle::object_to_world_swaps_handedness is todo!().
triangle_object_to_world_swaps_handedness(self) ==
    [status |-> "panic", flag |-> FALSE]

\* Sphere::object_bound
sphere_object_bound(self) ==
    from_corners(<<-self.radius, -self.radius, self.z_min>>,
                 <<self.radius, self.radius, self.z_max>>)

IdleShape ==
    /\ theShape = sphere_new(Identity, Identity, FALSE, 1, -1, 1, 360)
    /\ wray = NoRay
    /\ outcome = NoCall
    /\ given = Given(1, -1, 1, 360)
    /\ answer = NoAnswer

IdleSi ==
    /\ si = NoSI
    /\ prev = NoSI.normal
    /\ siLast = SiOp("none", FALSE)
    /\ siOps = 0

IdleBox ==
    /\ a = from_point(NoPt)
    /\ b = from_point(NoPt)
    /\ isect = Unset
    /\ ovl = Unset
    /\ last = Op("from_point", NoPt, NoPt)
    /\ panicked = FALSE

IdleRay ==
    /\ rbox = NoBox
    /\ ray = [origin |-> NoPt, direction |-> NoPt, t_max |-> <<0, 1>>]
    /\ hit = [done |-> FALSE, some |-> FALSE, t0 |-> <<0, 1>>, t1 |-> <<0, 1>>]

\* One call of a box function: the receiver x, the other box y, the point
\* p and the scalar delta it was given, and the Option, bool or axis it
\* returned.  Arguments and results the function does not have stay at rest.
BoxCall(op, x, y, p, delta, out, flag, axis) ==
    [op |-> op, x |-> x, y |-> y, p |-> p, delta |-> delta,
     out |-> out, flag |-> flag, axis |-> axis]

NoBoxCall == BoxCall("none", NoBox, NoBox, NoPt, 0, None, FALSE, "X")

IdleCall == call = NoBoxCall

InitBox == IdleBox /\ IdleRay /\ IdleSi /\ IdleShape /\ IdleCall

NextBox ==
    \/ FromPoint(Coord)
    \/ FromCorners(Coord)
    \/ Union
    \/ UnionWithPoint(Coord)
    \/ Intersection
    \/ KeepIntersection
    \/ Overlaps
    \/ Expand

SpecBox == InitBox /\ [][NextBox]_vars

\* The same caller, with points whose coordinates may be NaN.
NextBoxNaN ==
    \/ FromPoint(CoordNaN)
    \/ FromCorners(CoordNaN)
    \/ Union
    \/ UnionWithPoint(CoordNaN)
    \/ Intersection
    \/ KeepIntersection
    \/ Overlaps
    \/ Expand

SpecBoxNaN == InitBox /\ [][NextBoxNaN]_vars

(***************************************************************************)
(* Claims about the bounding box.                                           *)
(***************************************************************************)
Valid(bx) == \A i \in Axes : bx.min[i] <= bx.max[i]

\* C7: for all boxes A and B with min <= max on every axis, A.overlaps(B) is
\* true exactly when A.intersection(B) is Some.
C7_OverlapsIffIntersection ==
    (isect.set /\ ovl.set) => (ovl.flag <=> isect.some)

\* C7 witness: two boxes that only touch on the x axis were asked both
\* questions, and overlap.
C7_Witness ==
    /\ isect.set /\ ovl.set
    /\ a.max[1] = b.min[1] /\ a.min[1] < a.max[1]
    /\ ovl.flag /\ isect.some

\* C8: every box produced by from_point, from_corners (corners in any order),
\* union, union_with_point, a Some result of intersection and expand has
\* min[i] <= max[i] on every axis, and from_corners(p1, p2) equals
\* from_corners(p2, p1).
C8_BoxesOrdered ==
    /\ Valid(a)
    /\ Valid(b)
    /\ (isect.set /\ isect.some) => Valid(isect.box)
    /\ last.op = "from_corners" => from_corners(last.p2, last.p1) = Some(a)
    /\ last.op = "from_corners_other" => from_corners(last.p2, last.p1) = Some(b)

\* C8 witness: from_corners was given corners that are neither min-first nor
\* max-first (x descending, y ascending), next to a box that was expanded.
C8_Witness ==
    /\ last.op = "from_corners_other"
    /\ last.p1[1] > last.p2[1] /\ last.p1[2] < last.p2[2]
    /\ a.min[1] < 0

\* C9: a box operation that meets an unorderable (NaN) pair in from_corners,
\* union, union_with_point or intersection reports a failure value to its
\* caller and never aborts the process.
C9_NeverAborts == ~panicked

(***************************************************************************)
(* Bounds3<f32>::ray_intersection.  slab is one pass of the loop over the   *)
(* three dimensions; a pass after a return leaves the returned None alone.  *)
(***************************************************************************)
Range(t0, t1) == [done |-> TRUE, some |-> TRUE, t0 |-> t0, t1 |-> t1]
NoHit == [done |-> TRUE, some |-> FALSE, t0 |-> Zero, t1 |-> Zero]

\* slab without the swap of the two plane hits for a negative direction.
slab_unswapped(self, r, result, dim) ==
    IF ~result.some THEN result
    ELSE IF r.direction[dim] = 0
    THEN IF r.origin[dim] < self.min[dim] \/ r.origin[dim] > self.max[dim]
         THEN NoHit
         ELSE result
    ELSE LET t_near == Frac(self.min[dim] - r.origin[dim], r.direction[dim])
             t_far == Frac(self.max[dim] - r.origin[dim], r.direction[dim])
             r0 == IF FGt(t_near, result.t0) THEN t_near ELSE result.t0
             r1 == IF FLt(t_far, result.t1) THEN t_far ELSE result.t1
         IN  IF FGt(r0, r1) THEN NoHit ELSE Range(r0, r1)

\* slab whose parallel case never fails: the dimension is always skipped.
slab_parallel_skipped(self, r, result, dim) ==
    IF ~result.some THEN result
    ELSE IF r.direction[dim] = 0 THEN result
    ELSE LET t_at_bounds_min == Frac(self.min[dim] - r.origin[dim], r.direction[dim])
             t_at_bounds_max == Frac(self.max[dim] - r.origin[dim], r.direction[dim])
             swap == FGt(t_at_bounds_min, t_at_bounds_max)
             t_near == IF swap THEN t_at_bounds_max ELSE t_at_bounds_min
             t_far == IF swap THEN t_at_bounds_min ELSE t_at_bounds_max
             r0 == IF FGt(t_near, result.t0) THEN t_near ELSE result.t0
             r1 == IF FLt(t_far, result.t1) THEN t_far ELSE result.t1
         IN  IF FGt(r0, r1) THEN NoHit ELSE Range(r0, r1)

\* slab that shrinks the range but never finds it empty.
slab_unchecked(self, r, result, dim) ==
    IF ~result.some THEN result
    ELSE IF r.direction[dim] = 0
    THEN IF r.origin[dim] < self.min[dim] \/ r.origin[dim] > self.max[dim]
         THEN NoHit
         ELSE result
    ELSE LET t_at_bounds_min == Frac(self.min[dim] - r.origin[dim], r.direction[dim])
             t_at_bounds_max == Frac(self.max[dim] - r.origin[dim], r.direction[dim])
             swap == FGt(t_at_bounds_min, t_at_bounds_max)
             t_near == IF swap THEN t_at_bounds_max ELSE t_at_bounds_min
             t_far == IF swap THEN t_at_bounds_min ELSE t_at_bounds_max
             r0 == IF FGt(t_near, result.t0) THEN t_near ELSE result.t0
             r1 == IF FLt(t_far, result.t1) THEN t_far ELSE result.t1
         IN  Range(r0, r1)

slab(self, r, result, dim) ==
    IF ~result.some THEN result
    \* 1.0 / direction is infinite exactly when the direction component is 0
    ELSE IF r.direction[dim] = 0
    THEN IF r.origin[dim] < self.min[dim] \/ r.origin[dim] > self.max[dim]
         THEN NoHit
         ELSE result
    ELSE LET t_at_bounds_min == Frac(self.min[dim] - r.origin[dim], r.direction[dim])
             t_at_bounds_max == Frac(self.max[dim] - r.origin[dim], r.direction[dim])
             swap == FGt(t_at_bounds_min, t_at_bounds_max)
             t_near == IF swap THEN t_at_bounds_max ELSE t_at_bounds_min
             t_far == IF swap THEN t_at_bounds_min ELSE t_at_bounds_max
             r0 == IF FGt(t_near, result.t0) THEN t_near ELSE result.t0
             r1 == IF FLt(t_far, result.t1) THEN t_far ELSE result.t1
         IN  IF FGt(r0, r1) THEN NoHit ELSE Range(r0, r1)

ray_intersection(self, r) ==
    slab(self, r, slab(self, r, slab(self, r, Range(Zero, r.t_max), 1), 2), 3)

(***************************************************************************)
(* Rays against boxes.  Lengths are in half units, so that the point        *)
(* (0.5, 0.5, -1) is <<1, 1, -2>>, the unit box is (0,0,0)-(2,2,2) and the   *)
(* direction (0, 0, 1) is <<0, 0, 2>>; t has no unit.                        *)
(***************************************************************************)
BoxCorner == {0, 2}
OriginCoord == {-2, 0, 1, 3}
DirCoord == (0 - MaxDir)..MaxDir
TMax == {<<k, 1>> : k \in 0..MaxT} \cup {Inf}

InitRay ==
    /\ IdleBox
    /\ IdleSi
    /\ IdleShape
    /\ IdleCall
    /\ \E p1 \in Points(BoxCorner), p2 \in Points(BoxCorner) :
          rbox = from_corners(p1, p2).box
    /\ \E o \in Points(OriginCoord), d \in Points(DirCoord), t \in TMax :
          ray = [origin |-> o, direction |-> d, t_max |-> t]
    /\ hit = [done |-> FALSE, some |-> FALSE, t0 |-> Zero, t1 |-> Zero]

RayIntersection ==
    /\ ~hit.done
    /\ hit' = ray_intersection(rbox, ray)
    /\ UNCHANGED <<rbox, ray>>
    /\ UNCHANGED exceptRay

NextRay == RayIntersection

SpecRay == InitRay /\ [][NextRay]_vars

(***************************************************************************)
(* Claims about the ray-box test.                                           *)
(***************************************************************************)
StrictlyInside(bx, p) == \A i \in Axes : bx.min[i] < p[i] /\ p[i] < bx.max[i]

\* The point origin + t * direction lies in the box, faces included
\* (t = <<n, d>> finite, the comparison multiplied through by d).
PointAtInside(bx, r, t) ==
    \A i \in Axes :
        /\ bx.min[i] * t[2] <= r.origin[i] * t[2] + t[1] * r.direction[i]
        /\ r.origin[i] * t[2] + t[1] * r.direction[i] <= bx.max[i] * t[2]

\* The parameters at which the set of t with the point inside the box can
\* begin or end: 0, t_max and the six plane crossings.
Crossings(bx, r) ==
    {Zero, r.t_max}
    \cup {Frac(bx.min[i] - r.origin[i], r.direction[i]) : i \in {j \in Axes : r.direction[j] # 0}}
    \cup {Frac(bx.max[i] - r.origin[i], r.direction[i]) : i \in {j \in Axes : r.direction[j] # 0}}

Finite(t) == t[2] # 0

\* C2: a ray whose origin is strictly inside the box on all three axes and
\* whose t_max > 0 gets Some((t0, t1)) with t0 = 0, whatever its direction.
C2_InsideOriginStartsAtZero ==
    (hit.done /\ StrictlyInside(rbox, ray.origin) /\ FGt(ray.t_max, Zero))
        => (hit.some /\ hit.t0 = Zero)

\* C2 witness: such a ray, pointing backwards on x and parallel on y, was tested.
C2_Witness ==
    /\ hit.done /\ StrictlyInside(rbox, ray.origin) /\ FGt(ray.t_max, Zero)
    /\ ray.direction[1] < 0 /\ ray.direction[2] = 0 /\ ray.direction[3] > 0
    /\ hit.some /\ hit.t0 = Zero

\* C3: a ray whose direction is exactly zero on some axis and whose origin
\* on that axis is outside [min, max] gets None, whatever the other axes
\* and t_max are.
C3_ParallelOutsideMisses ==
    (hit.done /\ \E i \in Axes : /\ ray.direction[i] = 0
                                 /\ (ray.origin[i] < rbox.min[i] \/ ray.origin[i] > rbox.max[i]))
        => ~hit.some

\* C3 witness: the ray is parallel to z and outside the z slab, while on x
\* and y it crosses the box within t_max.
C3_Witness ==
    /\ hit.done /\ ~hit.some
    /\ ray.direction[3] = 0 /\ ray.origin[3] > rbox.max[3]
    /\ ray.direction[1] # 0 /\ ray.direction[2] # 0
    /\ \E t \in Crossings(rbox, ray) :
          /\ Finite(t) /\ FLe(Zero, t) /\ FLe(t, ray.t_max)
          /\ \A i \in {1, 2} :
                /\ rbox.min[i] * t[2] <= ray.origin[i] * t[2] + t[1] * ray.direction[i]
                /\ ray.origin[i] * t[2] + t[1] * ray.direction[i] <= rbox.max[i] * t[2]

Partials == {<<1, 0, 0>>, <<0, 1, 0>>, <<0, 0, 1>>, <<0, -2, 0>>, <<1, 1, 0>>}
ShadingPartials == {<<1, 0, 0>>, <<0, 1, 0>>, <<1, 0, 1>>}
Spanning(S) == {pr \in S \X S : Cross(pr[1], pr[2]) # <<0, 0, 0>>}
NormalPartials == {<<<<0, 0, 0>>, <<0, 0, 0>>>>, <<<<1, 0, 0>>, <<0, 1, 0>>>>}
HitPoints == {<<NoPt, NoDir>>, <<<<1, 2, 3>>, SomeDir(<<0, 0, 2>>)>>}
Matrices == {MirrorX, ShearXY, RotateZ, ScaleMove}

New ==
    /\ siLast.op = "none"
    /\ \E pt \in HitPoints, ro \in BOOLEAN, sh \in BOOLEAN,
          dp \in Spanning(Partials), dn \in NormalPartials :
        /\ si' = new(pt[1], NoPt, pt[2], GenericShape(ro, sh), <<0, 0>>,
                     dp[1], dp[2], dn[1], dn[2])
        /\ prev' = si'.normal
        /\ siLast' = SiOp("new", FALSE)
        /\ siOps' = 0
        /\ UNCHANGED exceptSi

SetShadingGeometry ==
    /\ siLast.op # "none"
    /\ siOps < MaxSiOps
    /\ \E dp \in Spanning(ShadingPartials), auth \in BOOLEAN :
          /\ si' = set_shading_geometry(si, dp[1], dp[2], <<0, 0, 1>>, <<0, 1, 0>>, auth)
          /\ siLast' = SiOp("set_shading_geometry", auth)
    /\ prev' = si.normal
    /\ siOps' = siOps + 1
    /\ UNCHANGED exceptSi

TransformInteraction ==
    /\ siLast.op # "none"
    /\ siOps < MaxSiOps
    /\ \E m \in Matrices : si' = transform_interaction(m, si)
    /\ siLast' = SiOp("transform", FALSE)
    /\ prev' = si.normal
    /\ siOps' = siOps + 1
    /\ UNCHANGED exceptSi

InitSi == IdleBox /\ IdleRay /\ IdleSi /\ IdleShape /\ IdleCall

NextSi ==
    \/ New
    \/ SetShadingGeometry
    \/ TransformInteraction

SpecSi == InitSi /\ [][NextSi]_vars

(***************************************************************************)
(* Claims about the surface interaction.                                    *)
(***************************************************************************)
\* C1: SurfaceInteraction::new stores the negated normalized cross product
\* dpdu x dpdv exactly when reverse_orientation XOR
\* transform_swaps_handedness is true, and the un-negated one when it is
\* false, for all four combinations of the two flags.
C1_OrientationRule ==
    siLast.op = "new" =>
        si.normal =
            IF si.shape.reverse_orientation # si.shape.transform_swaps_handedness
            THEN Neg(Normalize(Cross(si.dpdu, si.dpdv)))
            ELSE Normalize(Cross(si.dpdu, si.dpdv))

\* C5: after any sequence of new, set_shading_geometry (either value of
\* orientation_is_authoritative) and transform, the geometric normal and
\* the shading normal have a non-negative dot product.
C5_SameHemisphere ==
    siLast.op # "none" => Dot(si.normal, si.shading_geometry.normal) >= 0

\* C5 witness: a shading frame was set and the interaction then transformed
\* by a matrix that is not orthogonal; the two normals differ.
C5_Witness ==
    /\ siLast.op = "transform" /\ siOps = 2
    /\ si.normal # si.shading_geometry.normal
    /\ Dot(si.dpdu, si.dpdv) # 0
    /\ Dot(si.normal, si.shading_geometry.normal) >= 0

\* C6: set_shading_geometry with orientation_is_authoritative = true leaves
\* the shading normal as computed from the supplied partials (normalized
\* dpdu x dpdv, never negated) and changes at most the sign of the geometric
\* normal; with false it leaves the geometric normal exactly as it was and
\* changes at most the sign of the shading normal.
C6_OnlyTheOtherNormalFlips ==
    siLast.op = "set_shading_geometry" =>
        LET sg == si.shading_geometry
            n == Normalize(Cross(sg.dpdu, sg.dpdv))
        IN  IF siLast.auth
            THEN sg.normal = n /\ si.normal \in {prev, Neg(prev)}
            ELSE si.normal = prev /\ sg.normal \in {n, Neg(n)}

\* C6 witness: an authoritative shading frame facing away from the geometric
\* normal was set, and the geometric normal was flipped.
C6_Witness ==
    /\ siLast.op = "set_shading_geometry" /\ siLast.auth
    /\ si.normal = Neg(prev)
    /\ si.shading_geometry.normal = Normalize(Cross(si.shading_geometry.dpdu,
                                                     si.shading_geometry.dpdv))

(***************************************************************************)
(* A caller that builds a shape and intersects rays with it.  A panic       *)
(* (todo!() is one) ends the caller.                                        *)
(***************************************************************************)
Translate == Matrix(<<1, 0, 0>>, <<0, 1, 0>>, <<0, 0, 1>>, <<0, 0, 3>>)
TranslateBack == Matrix(<<1, 0, 0>>, <<0, 1, 0>>, <<0, 0, 1>>, <<0, 0, -3>>)
RotateZBack == Matrix(<<0, 1, 0>>, <<-1, 0, 0>>, <<0, 0, 1>>, <<0, 0, 0>>)

\* (object_to_world, world_to_object) pairs, each the inverse of the other
TransformPairs ==
    {<<Identity, Identity>>, <<MirrorX, MirrorX>>,
     <<Translate, TranslateBack>>, <<RotateZ, RotateZBack>>}

WorldRays ==
    {Ray(o, d, t) : o \in {<<0, 0, 5>>, <<0, 0, 0>>, <<5, 0, 0>>, <<1, 1, 4>>},
                    d \in {<<0, 0, -1>>, <<0, 0, 1>>, <<-1, 0, 0>>},
                    t \in {Inf, <<MaxT, 1>>}}

TriangleVertices ==
    {<<<<0, 0, 0>>, <<1, 0, 0>>, <<0, 1, 0>>>>, <<<<0, 0, 0>>, <<0, 0, 0>>, <<0, 0, 0>>>>}

NewSphere ==
    /\ outcome.status # "panic"
    /\ \E tp \in TransformPairs, ro \in BOOLEAN, radius \in {1, 2},
          z \in {<<-1, 1>>, <<0, 1>>}, phi_max \in {180, 360} :
          /\ theShape' = sphere_new(tp[1], tp[2], ro, radius, z[1], z[2], phi_max)
          /\ given' = Given(radius, z[1], z[2], phi_max)
    /\ wray' = NoRay
    /\ outcome' = NoCall
    /\ answer' = NoAnswer
    /\ UNCHANGED exceptShape

TriangleAt ==
    /\ outcome.status # "panic"
    /\ \E tp \in TransformPairs, ro \in BOOLEAN, vs \in TriangleVertices :
          theShape' = triangle_at(tp[1], tp[2], ro, vs)
    /\ wray' = NoRay
    /\ outcome' = NoCall
    /\ given' = NoneGiven
    /\ answer' = NoAnswer
    /\ UNCHANGED exceptShape

SphereRayIntersection ==
    /\ outcome.status # "panic"
    /\ theShape.kind = "sphere"
    /\ \E r \in WorldRays, test_alpha_texture \in BOOLEAN :
          /\ wray' = r
          /\ outcome' = sphere_ray_intersection(theShape, r, test_alpha_texture)
    /\ UNCHANGED <<theShape, given, answer>>
    /\ UNCHANGED exceptShape

TriangleRayIntersection ==
    /\ outcome.status # "panic"
    /\ theShape.kind = "triangle"
    /\ \E r \in WorldRays, test_alpha_texture \in BOOLEAN :
          /\ wray' = r
          /\ outcome' = triangle_ray_intersection(theShape, r, test_alpha_texture)
    /\ UNCHANGED <<theShape, given, answer>>
    /\ UNCHANGED exceptShape

SphereDoesRayIntersect ==
    /\ outcome.status # "panic"
    /\ theShape.kind = "sphere"
    /\ \E r \in WorldRays, test_alpha_texture \in BOOLEAN :
          /\ wray' = r
          /\ outcome' = sphere_does_ray_intersect(theShape, r, test_alpha_texture)
          /\ answer' = Answer(outcome'.some, NoBox)
    /\ UNCHANGED <<theShape, given>>
    /\ UNCHANGED exceptShape

TriangleDoesRayIntersect ==
    /\ outcome.status # "panic"
    /\ theShape.kind = "triangle"
    /\ \E r \in WorldRays, test_alpha_texture \in BOOLEAN :
          /\ wray' = r
          /\ outcome' = triangle_does_ray_intersect(theShape, r, test_alpha_texture)
          /\ answer' = Answer(outcome'.some, NoBox)
    /\ UNCHANGED <<theShape, given>>
    /\ UNCHANGED exceptShape

SphereSwapsHandedness ==
    /\ outcome.status # "panic"
    /\ theShape.kind = "sphere"
    /\ LET res == sphere_object_to_world_swaps_handedness(theShape)
       IN  /\ outcome' = [NoCall EXCEPT
                            !.op = "sphere.object_to_world_swaps_handedness",
                            !.status = res.status]
           /\ answer' = Answer(res.flag, NoBox)
    /\ wray' = NoRay
    /\ UNCHANGED <<theShape, given>>
    /\ UNCHANGED exceptShape

TriangleSwapsHandedness ==
    /\ outcome.status # "panic"
    /\ theShape.kind = "triangle"
    /\ LET res == triangle_object_to_world_swaps_handedness(theShape)
       IN  /\ outcome' = [NoCall EXCEPT
                            !.op = "triangle.object_to_world_swaps_handedness",
                            !.status = res.status]
           /\ answer' = Answer(res.flag, NoBox)
    /\ wray' = NoRay
    /\ UNCHANGED <<theShape, given>>
    /\ UNCHANGED exceptShape

SphereObjectBound ==
    /\ outcome.status # "panic"
    /\ theShape.kind = "sphere"
    /\ LET res == sphere_object_bound(theShape)
       IN  /\ outcome' = [NoCall EXCEPT
                            !.op = "sphere.object_bound",
                            !.status = IF res.ok THEN "returned" ELSE "panic"]
           /\ answer' = Answer(FALSE, res.box)
    /\ wray' = NoRay
    /\ UNCHANGED <<theShape, given>>
    /\ UNCHANGED exceptShape

InitShape == IdleBox /\ IdleRay /\ IdleSi /\ IdleShape /\ IdleCall

NextShape ==
    \/ NewSphere
    \/ TriangleAt
    \/ SphereRayIntersection
    \/ TriangleRayIntersection
    \/ SphereDoesRayIntersect
    \/ TriangleDoesRayIntersect
    \/ SphereSwapsHandedness
    \/ TriangleSwapsHandedness
    \/ SphereObjectBound

SpecShape == InitShape /\ [][NextShape]_vars

(***************************************************************************)
(* Claims about the shapes.                                                 *)
(***************************************************************************)
\* C10: for Sphere and Triangle and every ray, ray_intersection completes
\* and returns Some((t, interaction)) or None; a miss is never signalled by
\* an error or a process abort.  The unit sphere at the origin with ray
\* origin (0, 0, 5), direction (0, 0, -1) and unbounded t_max gives t = 4.
C10_RayIntersectionReturns ==
    outcome.op \in {"sphere.ray_intersection", "triangle.ray_intersection"} =>
        /\ outcome.status = "returned"
        /\ ( /\ theShape.kind = "sphere" /\ theShape.radius = 1
             /\ theShape.object_to_world = Identity
             /\ wray = Ray(<<0, 0, 5>>, <<0, 0, -1>>, Inf) )
              => (outcome.some /\ FEq(outcome.t, <<4, 1>>))

\* C11: for every shape variant, every ray and both values of
\* test_alpha_texture, does_ray_intersect returns a boolean, and it equals
\* ray_intersection(ray, test_alpha_texture).is_some().
C11_DoesRayIntersectIsIsSome ==
    outcome.op \in {"sphere.does_ray_intersect", "triangle.does_ray_intersect"} =>
        /\ outcome.status = "returned"
        /\ \A test_alpha_texture \in BOOLEAN :
              answer.flag =
                  IF theShape.kind = "sphere"
                  THEN sphere_ray_intersection(theShape, wray, test_alpha_texture).some
                  ELSE triangle_ray_intersection(theShape, wray, test_alpha_texture).some

\* C14: for Sphere and Triangle, object_to_world_swaps_handedness() returns
\* without failing, and what it returns is swaps_handedness() of the shape's
\* object_to_world (the determinant of its upper-left 3x3 is negative), as
\* fixed when the shape was built.
C14_SwapsHandednessOfObjectToWorld ==
    /\ theShape.kind = "sphere" =>
          theShape.object_to_world_swaps_handedness
              = (Det3(theShape.object_to_world.lin) < 0)
    /\ outcome.op \in {"sphere.object_to_world_swaps_handedness",
                       "triangle.object_to_world_swaps_handedness"} =>
          /\ outcome.status = "returned"
          /\ answer.flag = (Det3(theShape.object_to_world.lin) < 0)

\* C19: Sphere::ray_intersection takes the world-space ray to object space
\* with world_to_object, the inverse transform, not with object_to_world.
C19_RayGoesToObjectSpace ==
    outcome.op = "sphere.ray_intersection" =>
        outcome.ray = transform_ray(theShape.world_to_object, wray)

\* C20: a sphere built by Sphere::new keeps the radius, z_min, z_max and
\* phi_max it was given (phi_max is not replaced by a constant), and its
\* object_bound is the box [-radius, radius] x [-radius, radius] x
\* [z_min, z_max].
C20_NewKeepsWhatItWasGiven ==
    theShape.kind = "sphere" =>
        /\ theShape.radius = given.radius
        /\ theShape.z_min = given.z_min
        /\ theShape.z_max = given.z_max
        /\ theShape.phi_max = given.phi_max
        /\ outcome.op = "sphere.object_bound" =>
              /\ outcome.status = "returned"
              /\ answer.box = Box(<<-given.radius, -given.radius, given.z_min>>,
                                  <<given.radius, given.radius, given.z_max>>)

(***************************************************************************)
(* The box functions called once each: a caller builds its boxes with      *)
(* from_corners, calls one function and keeps what came back.               *)
(***************************************************************************)
SideCoord == 0..MaxSide
CallPoints == Points(SideCoord)
CallBoxes == {from_corners(p1, p2).box : p1 \in CallPoints, p2 \in CallPoints}
Deltas == -1..MaxSide

InsideCall ==
    /\ call.op = "none"
    /\ \E x \in CallBoxes, p \in CallPoints :
          call' = BoxCall("inside", x, NoBox, p, 0, None, inside(x, p), "X")
    /\ UNCHANGED exceptCall

InsideExclusiveCall ==
    /\ call.op = "none"
    /\ \E x \in CallBoxes, p \in CallPoints :
          call' = BoxCall("inside_exclusive", x, NoBox, p, 0, None,
                          inside_exclusive(x, p), "X")
    /\ UNCHANGED exceptCall

MaximumExtendCall ==
    /\ call.op = "none"
    /\ \E x \in CallBoxes :
          call' = BoxCall("maximum_extend", x, NoBox, NoPt, 0, None, FALSE,
                          maximum_extend(x))
    /\ UNCHANGED exceptCall

UnionCall ==
    /\ call.op = "none"
    /\ \E x \in CallBoxes, y \in CallBoxes :
          call' = BoxCall("union", x, y, NoPt, 0, union(x, y), FALSE, "X")
    /\ UNCHANGED exceptCall

UnionWithPointCall ==
    /\ call.op = "none"
    /\ \E x \in CallBoxes, p \in CallPoints :
          call' = BoxCall("union_with_point", x, NoBox, p, 0,
                          union_with_point(x, p), FALSE, "X")
    /\ UNCHANGED exceptCall

IntersectionCall ==
    /\ call.op = "none"
    /\ \E x \in CallBoxes, y \in CallBoxes :
          call' = BoxCall("intersection", x, y, NoPt, 0, intersection(x, y),
                          FALSE, "X")
    /\ UNCHANGED exceptCall

ExpandCall ==
    /\ call.op = "none"
    /\ \E x \in CallBoxes, delta \in Deltas :
          call' = BoxCall("expand", x, NoBox, NoPt, delta,
                          Some(expand(x, delta)), FALSE, "X")
    /\ UNCHANGED exceptCall

InitCall == IdleBox /\ IdleRay /\ IdleSi /\ IdleShape /\ IdleCall

NextCall ==
    \/ InsideCall
    \/ InsideExclusiveCall
    \/ MaximumExtendCall
    \/ UnionCall
    \/ UnionWithPointCall
    \/ IntersectionCall
    \/ ExpandCall

SpecCall == InitCall /\ [][NextCall]_vars

(***************************************************************************)
(* Claims about single calls of the box functions.                          *)
(***************************************************************************)
AxisName == <<"X", "Y", "Z">>
Extent(bx) == [i \in Axes |-> bx.max[i] - bx.min[i]]
Largest(d) == {i \in Axes : \A j \in Axes : d[i] >= d[j]}
FirstOf(S) == CHOOSE i \in S : \A j \in S : i <= j
LastOf(S) == CHOOSE i \in S : \A j \in S : i >= j
Least(m, n) == IF m <= n THEN m ELSE n
Greatest(m, n) == IF m >= n THEN m ELSE n
DisjointOn(x, y, i) == x.max[i] < y.min[i] \/ y.max[i] < x.min[i]

\* C12 as stated: maximum_extend returns an axis whose diagonal component is
\* largest, and among equal largest components the earlier axis wins (X
\* over Y over Z), so a cube gives X and d.x = d.y > d.z gives X.
C12_TiesPreferEarlierAxis ==
    call.op = "maximum_extend" =>
        call.axis = AxisName[FirstOf(Largest(Extent(call.x)))]

\* C12 amended: maximum_extend returns an axis whose diagonal component is
\* largest, and among equal largest components the later axis wins (Z over
\* Y over X), so a cube gives Z and d.x = d.y > d.z gives Y.
C12_TiesPreferLaterAxis ==
    call.op = "maximum_extend" =>
        call.axis = AxisName[LastOf(Largest(Extent(call.x)))]

C12_Witness ==
    /\ call.op = "maximum_extend"
    /\ Extent(call.x) = <<MaxSide, MaxSide, MaxSide>>
    /\ call.axis = "Z"

\* C13: inside(p) is true exactly when min[i] <= p[i] <= max[i] on every
\* axis, and inside_exclusive(p) exactly when min[i] < p[i] < max[i] on
\* every axis, so a point on a face of the box is not inside_exclusive.
C13_InsideAndInsideExclusive ==
    /\ call.op = "inside" =>
          ( call.flag <=>
              \A i \in Axes : call.x.min[i] <= call.p[i] /\ call.p[i] <= call.x.max[i] )
    /\ call.op = "inside_exclusive" =>
          ( call.flag <=>
              \A i \in Axes : call.x.min[i] < call.p[i] /\ call.p[i] < call.x.max[i] )

\* C16: union(a, b) is the box from the per-axis least of the two min
\* corners to the per-axis greatest of the two max corners; for a point p
\* with B.inside(p), B.union(from_point(p)) and B.union_with_point(p) are B.
C16_UnionIsSmallestCover ==
    /\ call.op = "union" =>
          /\ call.out.ok /\ call.out.some
          /\ \A i \in Axes :
                /\ call.out.box.min[i] = Least(call.x.min[i], call.y.min[i])
                /\ call.out.box.max[i] = Greatest(call.x.max[i], call.y.max[i])
          /\ (call.y.min = call.y.max /\ inside(call.x, call.y.min))
                => call.out.box = call.x
    /\ call.op = "union_with_point" =>
          /\ call.out.ok /\ call.out.some
          /\ inside(call.x, call.p) => call.out.box = call.x

C16_Witness ==
    /\ call.op = "union"
    /\ call.y = from_point(call.y.min)
    /\ \A i \in Axes : call.x.min[i] < call.y.min[i] /\ call.y.min[i] < call.x.max[i]
    /\ call.out = Some(call.x)

\* C17: B.intersection(B) is Some(B); two boxes that are disjoint on at least
\* one axis give None, and the call does not panic.
C17_IntersectionOfSelfAndOfDisjoint ==
    call.op = "intersection" =>
        /\ call.x = call.y => call.out = Some(call.x)
        /\ (\E i \in Axes : DisjointOn(call.x, call.y, i))
              => (call.out.ok /\ ~call.out.some)

C17_Witness ==
    /\ call.op = "intersection"
    /\ DisjointOn(call.x, call.y, 1)
    /\ ~DisjointOn(call.x, call.y, 2)
    /\ ~DisjointOn(call.x, call.y, 3)
    /\ call.out = None

\* C18: expand(delta) with delta > 0 subtracts delta from every component of
\* min and adds it to every component of max; with delta <= 0 the box comes
\* back unchanged, and neither case is an error.
C18_ExpandMovesBothCorners ==
    call.op = "expand" =>
        /\ call.out.ok
        /\ call.delta > 0 =>
              \A i \in Axes :
                  /\ call.out.box.min[i] = call.x.min[i] - call.delta
                  /\ call.out.box.max[i] = call.x.max[i] + call.delta
        /\ call.delta <= 0 => call.out.box = call.x

C18_Witness ==
    /\ call.op = "expand"
    /\ call.delta = MaxSide
    /\ call.out.box.min = [i \in Axes |-> call.x.min[i] - MaxSide]
    /\ call.out.box.max = [i \in Axes |-> call.x.max[i] + MaxSide]

(***************************************************************************)
(* Claim about transforming a SurfaceInteraction.                           *)
(***************************************************************************)
TransformedBy(m, before, after) ==
    /\ after.point = transform_point(m, before.point)
    /\ after.normal = transform_vector(m, before.normal)
    /\ after.dpdu = transform_vector(m, before.dpdu)
    /\ after.dpdv = transform_vector(m, before.dpdv)
    /\ after.dndu = transform_vector(m, before.dndu)
    /\ after.dndv = transform_vector(m, before.dndv)
    /\ after.shading_geometry.normal = transform_vector(m, before.shading_geometry.normal)
    /\ after.shading_geometry.dpdu = transform_vector(m, before.shading_geometry.dpdu)
    /\ after.shading_geometry.dpdv = transform_vector(m, before.shading_geometry.dpdv)
    /\ after.shading_geometry.dndu = transform_vector(m, before.shading_geometry.dndu)
    /\ after.shading_geometry.dndv = transform_vector(m, before.shading_geometry.dndv)
    /\ after.uv = before.uv
    /\ after.shape = before.shape

\* C15: transforming a SurfaceInteraction by a matrix M gives an interaction
\* whose point is M applied to the original point, whose normal, dpdu, dpdv,
\* dndu, dndv and five shading-frame vectors are M applied to the originals
\* as vectors, and whose uv, time and shape are unchanged.
C15_TransformMovesPointAndVectors ==
    [][ (siLast'.op = "transform" /\ siOps' = siOps + 1)
            => \E m \in Matrices : TransformedBy(m, si, si') ]_vars

====
